---- MODULE Spec2Model ----
(***************************************************************************)
(* DeepSeekClient.createChatCompletion (src/lib/llm/DeepSeekClient.ts):    *)
(* the cache / transport / validation / retry control loop of the adapter. *)
(*                                                                         *)
(* One adapter instance serves top-level calls one after the other.  An    *)
(* async invocation is cut at its awaits: Enter runs up to the first       *)
(* await, GetResolve / GetReject continue after `await cache.get`,         *)
(* CreateResolve / CreateReject continue after                             *)
(* `await client.chat.completions.create`.  The recursive retry            *)
(* `return this.createChatCompletion(...)` is a tail call: the outer frame *)
(* does nothing after it, so the frames are folded into one with the       *)
(* `retries` argument of the innermost invocation.                         *)
(*                                                                         *)
(* JavaScript values are records tagged with their type (field t), so that *)
(* truthiness, JSON.parse and schema validation are computed, not assumed. *)
(***************************************************************************)
EXTENDS Integers, Sequences, FiniteSets, TLC

\* ---------------------------------------------------------------- bounds
\* largest `retries` argument a caller passes to a top-level call
MaxRetries == 2
\* number of top-level calls made on the adapter, one after the other
MaxCalls == 2
\* longest list of content parts of a message (specification FlattenSpec)
MaxParts == 3

\* ------------------------------------------------------ JavaScript values
Undefined == [t |-> "undefined"]
Null == [t |-> "null"]
Str(s) == [t |-> "string", v |-> s]
Num(n) == [t |-> "number", v |-> n]
\* an object literal {answer: a}
AnswerObj(a) == [t |-> "object", answer |-> a]

\* JavaScript truthiness, as tested by `if (cachedResponse)` and
\* `!extractedData`
Truthy(x) ==
  CASE x.t = "undefined" -> FALSE
    [] x.t = "null" -> FALSE
    [] x.t = "string" -> x.v # ""
    [] x.t = "number" -> x.v # 0
    [] OTHER -> TRUE

\* ------------------------------------------------------------- errors
\* the status the catch block treats as fatal (line 192)
PaymentRequired == 402

\* an error rejected by the transport (openai APIError) with an HTTP status
APIError(status) ==
  [name |-> "APIError", message |-> "transport failure",
   status |-> Num(status)]
\* new Error(message): error.status is undefined
JsError(message) ==
  [name |-> "Error", message |-> message, status |-> Undefined]
\* the SyntaxError thrown by JSON.parse
SyntaxError ==
  [name |-> "SyntaxError", message |-> "Unexpected token", status |-> Undefined]
\* the error a failing cache.get rejects with
CacheError ==
  [name |-> "CacheError", message |-> "cache unavailable", status |-> Undefined]

NoContentError == JsError("No content in response")
InvalidSchemaError == JsError("Invalid response schema")
InsufficientBalanceError ==
  JsError("DeepSeek API: Insufficient balance. Please add funds to your account.")

\* an error rejected by the transport before any HTTP status exists
ConnectionError ==
  [name |-> "APIConnectionError", message |-> "Connection error.",
   status |-> Undefined]

TransportErrors ==
  {APIError(PaymentRequired), APIError(500), ConnectionError}

\* --------------------------------------------------- schemas and JSON text
\* JSON.stringify(schema) of the two response models of the model
SchemaAnswer == "{answer:number}"
SchemaNumber == "number"

AnswerModel == [name |-> "Answer", schema |-> SchemaAnswer]
NumberModel == [name |-> "Count", schema |-> SchemaNumber]

TextAnswer4 == "{\"answer\":4}"
TextAnswerFour == "{\"answer\":\"four\"}"
TextZero == "0"
TextMalformed == "oops"

\* JSON.parse: the parsed value, or ok = FALSE where it throws SyntaxError
JSONParse(text) ==
  CASE text = TextAnswer4 -> [ok |-> TRUE, value |-> AnswerObj(Num(4))]
    [] text = TextAnswerFour -> [ok |-> TRUE, value |-> AnswerObj(Str("four"))]
    [] text = TextZero -> [ok |-> TRUE, value |-> Num(0)]
    [] OTHER -> [ok |-> FALSE, value |-> Undefined]

\* validateZodSchema(schema, data): TRUE iff schema.parse(data) succeeds
validateZodSchema(schema, data) ==
  CASE schema = SchemaAnswer ->
         /\ data.t = "object"
         /\ "answer" \in DOMAIN data
         /\ data.answer.t = "number"
    [] schema = SchemaNumber -> data.t = "number"
    [] OTHER -> FALSE

\* ------------------------------------------------------------- messages
TextPart(s) == [type |-> "text", text |-> s]
ImagePart == [type |-> "image_url"]
\* message.content is either a string or an array of parts
PlainContent(s) == [isArray |-> FALSE, text |-> s]
PartsContent(ps) == [isArray |-> TRUE, parts |-> ps]

Question == [role |-> "user", content |-> PlainContent("2+2?")]
Mixed ==
  [role |-> "user",
   content |-> PartsContent(<<TextPart("a"), ImagePart, TextPart("b")>>)]

\* the request objects a caller builds
Request(messages, rm) ==
  [messages |-> messages, temperature |-> Undefined, top_p |-> Undefined,
   frequency_penalty |-> Undefined, presence_penalty |-> Undefined,
   response_model |-> rm]
Requests ==
  { Request(<<Question>>, rm) : rm \in {Undefined, AnswerModel, NumberModel} }
  \cup { Request(<<Mixed>>, Undefined) }

\* the bodies the transport resolves with: choices[0].message.content
Contents ==
  {Null, Str(""), Str(TextMalformed), Str(TextAnswer4), Str(TextAnswerFour),
   Str(TextZero)}
Response(content) == [t |-> "object", content |-> content]
Responses == {Response(c) : c \in Contents}

\* the system message of lines 96-101
Instruction(schema) ==
  [role |-> "system",
   content |-> PlainContent("Return response in this JSON format: " \o schema
       \o ". Do not include any other text or markdown formatting.")]

\* the placeholders of the non-text parts are not filtered out
RECURSIVE PartTexts_NoFilter(_)
PartTexts_NoFilter(parts) ==
  IF parts = <<>> THEN <<>>
  ELSE LET c == Head(parts)
       IN <<IF "text" \in DOMAIN c THEN c.text ELSE "">>
            \o PartTexts_NoFilter(Tail(parts))

\* .map(c => "text" in c ? c.text : "").filter(Boolean)
RECURSIVE PartTexts(_)
PartTexts(parts) ==
  IF parts = <<>> THEN <<>>
  ELSE LET c == Head(parts)
           s == IF "text" \in DOMAIN c THEN c.text ELSE ""
       IN (IF s # "" THEN <<s>> ELSE <<>>) \o PartTexts(Tail(parts))

\* Array.prototype.join(sep)
RECURSIVE Join(_, _)
Join(texts, sep) ==
  IF texts = <<>> THEN ""
  ELSE IF Len(texts) = 1 THEN texts[1]
  ELSE texts[1] \o sep \o Join(Tail(texts), sep)

\* lines 104-113: one {role, content: string} per message
formattedMessages(messages) ==
  [i \in 1..Len(messages) |->
     [role |-> messages[i].role,
      content |-> IF messages[i].content.isArray
                  THEN Join(PartTexts(messages[i].content.parts), "\n")
                  ELSE messages[i].content.text]]

\* ----------------------------------------------------------------- state
VARIABLES
  enableCaching,   \* this.enableCaching
  cacheSupplied,   \* this.cache is defined
  store,           \* contents of the LLMCache: a set of [key, value]
  optionsInitial,  \* the caller's request object (options aliases it)
  retries,         \* the retries argument of the running invocation
  pc,              \* "idle", "invoke", "get", "create", "done"
  result,          \* outcome of the top-level call
  body,            \* messages of the last body handed to the transport
  logged,          \* number of logger events emitted, per level
  calls,           \* top-level calls made so far
  budget,          \* retries argument of the top-level call
  original,        \* caller's messages when the top-level call began
  transportCalls,  \* transport calls issued by the top-level call
  kinds,           \* outcome kinds of the attempts of the top-level call
  lastKind,        \* outcome kind of the latest attempt, "none" before it
  failures,        \* failed attempts of the top-level call
  getResults,      \* outcomes of cache.get in the top-level call
  getKey,          \* key passed to the latest cache.get of the call
  cacheSets,       \* cache.set calls made by the top-level call
  lastSet,         \* key and value of the last cache.set of the call
  cacheGets,       \* cache.get calls made by the top-level call
  setFailed,       \* a cache.set of the top-level call failed
  inFlight         \* transport calls issued and not yet completed

vars ==
  <<enableCaching, cacheSupplied, store, optionsInitial, retries, pc, result,
    body, logged, calls, budget, original, transportCalls, kinds, lastKind,
    failures, getResults, getKey, cacheSets, lastSet, cacheGets, setFailed,
    inFlight>>

config == <<enableCaching, cacheSupplied>>
history == <<budget, original, calls>>

NoResult == [tag |-> "none"]
Returned(v) == [tag |-> "returned", value |-> v]
Thrown(e) == [tag |-> "thrown", error |-> e]
NoKey == [t |-> "undefined"]
NoSet == [key |-> NoKey, value |-> Undefined]

\* ------------------------------------------------------------ the cache
\* the response model is left out of the key
cacheOptions_NoModel(options) ==
  [model |-> "deepseek-chat",
   messages |-> options.messages,
   temperature |-> options.temperature,
   top_p |-> options.top_p,
   frequency_penalty |-> options.frequency_penalty,
   presence_penalty |-> options.presence_penalty,
   response_model |-> Undefined]

\* lines 51-59; cacheOptions.messages is the array options.messages itself,
\* so the key is read from the request object as it is when the cache
\* hashes it
cacheOptions(options) ==
  [model |-> "deepseek-chat",
   messages |-> options.messages,
   temperature |-> options.temperature,
   top_p |-> options.top_p,
   frequency_penalty |-> options.frequency_penalty,
   presence_penalty |-> options.presence_penalty,
   response_model |-> options.response_model]

\* LLMCache.get: the stored value, or undefined
CacheGet(key) ==
  IF \E e \in store : e.key = key
  THEN (CHOOSE e \in store : e.key = key).value
  ELSE Undefined

\* LLMCache.set: the store after the write
CacheSet(key, value) ==
  {e \in store : e.key # key} \cup {[key |-> key, value |-> value]}

\* this.cache?.get(cacheOptions, requestId)
cachedResponse(options) ==
  IF cacheSupplied THEN CacheGet(cacheOptions(options)) ELSE Undefined

\* ------------------------------------------------------------ operations
Init ==
  /\ enableCaching \in BOOLEAN
  /\ cacheSupplied \in BOOLEAN
  /\ store = {}
  /\ optionsInitial = Request(<<>>, Undefined)
  /\ retries = 0
  /\ pc = "idle"
  /\ result = NoResult
  /\ body = <<>>
  /\ logged = [level0 |-> 0, level1 |-> 0]
  /\ calls = 0
  /\ budget = 0
  /\ original = <<>>
  /\ transportCalls = 0
  /\ kinds = {}
  /\ lastKind = "none"
  /\ failures = 0
  /\ getResults = {}
  /\ getKey = NoKey
  /\ cacheSets = 0
  /\ lastSet = NoSet
  /\ cacheGets = 0
  /\ setFailed = FALSE
  /\ inFlight = 0

\* A caller starts a top-level call with a request object it built, or with
\* the request object of its previous call.
Call(request, n) ==
  /\ pc \in {"idle", "done"}
  /\ calls < MaxCalls
  /\ request \in Requests \/ (calls > 0 /\ request = optionsInitial)
  /\ optionsInitial' = request
  /\ retries' = n
  /\ pc' = "invoke"
  /\ result' = NoResult
  /\ body' = <<>>
  /\ logged' = [level0 |-> 0, level1 |-> 0]
  /\ calls' = calls + 1
  /\ budget' = n
  /\ original' = request.messages
  /\ transportCalls' = 0
  /\ kinds' = {}
  /\ lastKind' = "none"
  /\ failures' = 0
  /\ getResults' = {}
  /\ getKey' = NoKey
  /\ cacheSets' = 0
  /\ lastSet' = NoSet
  /\ cacheGets' = 0
  /\ setFailed' = FALSE
  /\ inFlight' = 0
  /\ UNCHANGED <<config, store>>

\* lines 95-102: options.messages.unshift(system instruction); options is the
\* caller's object, so the caller's message list itself grows
injectedMessages(options) ==
  IF options.response_model # Undefined
  THEN <<Instruction(options.response_model.schema)>> \o options.messages
  ELSE options.messages

\* lines 80-135: log, inject, format, build the body and issue the call
Prepare ==
  /\ logged' = [logged EXCEPT !.level1 = @ + 1]
  /\ optionsInitial' =
       [optionsInitial EXCEPT !.messages = injectedMessages(optionsInitial)]
  /\ body' = formattedMessages(injectedMessages(optionsInitial))
  /\ transportCalls' = transportCalls + 1
  /\ inFlight' = inFlight + 1
  /\ pc' = "create"

\* lines 48-62: an invocation runs up to its first await
Enter ==
  /\ pc = "invoke"
  /\ IF enableCaching
     THEN /\ pc' = "get"
          /\ getKey' = cacheOptions(optionsInitial)
          /\ cacheGets' = cacheGets + 1
          /\ UNCHANGED <<optionsInitial, body, logged, transportCalls,
                         inFlight>>
     ELSE /\ Prepare
          /\ UNCHANGED <<getKey, cacheGets>>
  /\ UNCHANGED <<config, history, store, retries, result, kinds, lastKind,
                 failures, getResults, cacheSets, lastSet, setFailed>>

\* lines 62-78: cache.get resolved
GetResolve ==
  /\ pc = "get"
  /\ LET response == cachedResponse(optionsInitial)
     IN /\ getResults' =
             getResults \cup {IF response = Undefined THEN "absent" ELSE "value"}
        /\ IF Truthy(response)
           THEN /\ logged' = [logged EXCEPT !.level1 = @ + 1]
                /\ result' = Returned(response)
                /\ pc' = "done"
                /\ UNCHANGED <<optionsInitial, body, transportCalls, inFlight>>
           ELSE /\ Prepare
                /\ UNCHANGED result
  /\ UNCHANGED <<config, history, store, retries, kinds, lastKind, failures,
                 getKey, cacheSets, lastSet, cacheGets, setFailed>>

\* what the code after `await create` decides to do
Return(v) == [do |-> "return", value |-> v, error |-> Undefined]
\* the error is swallowed and undefined is returned in its place
Throw_Sentinel(e) == [do |-> "return", value |-> Undefined, error |-> Undefined]

\* throw e
Throw(e) == [do |-> "throw", value |-> Undefined, error |-> e]
Recurse == [do |-> "recurse", value |-> Undefined, error |-> Undefined]

\* the validation result is ignored
schemaRejected_Skipped(options, parsedData) == FALSE

\* line 154: !validateZodSchema(options.response_model.schema, parsedData)
schemaRejected(options, parsedData) ==
  ~validateZodSchema(options.response_model.schema, parsedData)

\* line 155: if (retries > 0) on a validation failure
validationRetry(r) == r > 0

\* the fatal status is compared with the wrong code
isPaymentError_WrongStatus(error) == error.status = Num(401)

\* line 192: error.status === 402
isPaymentError(error) == error.status = Num(PaymentRequired)

\* the catch block retries once more than the budget allows
catchRetry_Inclusive(r) == r >= 0

\* the catch block gives up one retry early
catchRetry_Strict(r) == r > 1

\* line 198: if (retries > 0) in the catch block
catchRetry(r) == r > 0

\* the budget is reduced by two
nextRetries_Double(r) == r - 2

\* lines 159, 202: retries: retries - 1
nextRetries(r) == r - 1

\* lines 192-206, after the error log of lines 178-190
catchBlock(error) ==
  IF isPaymentError(error) THEN Throw(InsufficientBalanceError)
  ELSE IF catchRetry(retries) THEN Recurse
  ELSE Throw(error)

\* the cache lookup sits inside the try block
getInsideTry_Caught == TRUE

\* lines 61-63, 134: `await this.cache?.get` comes before the try block opens,
\* so its rejection is not handled by the catch block
getInsideTry == FALSE

\* line 62: cache.get rejected
GetReject ==
  /\ pc = "get"
  /\ cacheSupplied
  /\ getResults' = getResults \cup {"error"}
  /\ logged' = [logged EXCEPT !.level0 = @ + (IF getInsideTry THEN 1 ELSE 0)]
  /\ LET decision == IF getInsideTry THEN catchBlock(CacheError)
                     ELSE Throw(CacheError)
     IN CASE decision.do = "throw" ->
               /\ result' = Thrown(decision.error)
               /\ pc' = "done"
               /\ UNCHANGED retries
          [] decision.do = "return" ->
               /\ result' = Returned(decision.value)
               /\ pc' = "done"
               /\ UNCHANGED retries
          [] OTHER ->
               /\ retries' = nextRetries(retries)
               /\ pc' = "invoke"
               /\ UNCHANGED result
  /\ UNCHANGED <<config, history, store, optionsInitial, body, transportCalls,
                 kinds, lastKind, failures, getKey, cacheSets, lastSet,
                 cacheGets, setFailed, inFlight>>

\* lines 147-176: [caught |-> whether the catch block ran, then |-> decision]
tryBody(response) ==
  IF optionsInitial.response_model # Undefined
  THEN LET extractedData == response.content
       IN IF ~Truthy(extractedData)
          THEN [caught |-> TRUE, then |-> catchBlock(NoContentError)]
          ELSE LET parsedData == JSONParse(extractedData.v)
               IN IF ~parsedData.ok
                  THEN [caught |-> TRUE, then |-> catchBlock(SyntaxError)]
                  ELSE IF schemaRejected(optionsInitial, parsedData.value)
                  THEN IF validationRetry(retries)
                       THEN [caught |-> FALSE, then |-> Recurse]
                       ELSE [caught |-> TRUE,
                             then |-> catchBlock(InvalidSchemaError)]
                  ELSE [caught |-> FALSE, then |-> Return(parsedData.value)]
  ELSE [caught |-> FALSE, then |-> Return(response)]

\* how an attempt that got a response ended
AttemptKind(response) ==
  IF optionsInitial.response_model = Undefined THEN "raw"
  ELSE IF ~Truthy(response.content) THEN "empty"
  ELSE IF ~JSONParse(response.content.v).ok THEN "malformed"
  ELSE IF ~validateZodSchema(optionsInitial.response_model.schema,
                             JSONParse(response.content.v).value)
       THEN "invalid"
  ELSE "valid"

\* how an attempt whose transport call was rejected ended
RejectKind(error) ==
  IF error.status = Num(PaymentRequired) THEN "payment" ELSE "transport"

\* cache.set is called whether or not caching is enabled
cachingOnSet_Always == TRUE

\* lines 165, 172: if (this.enableCaching) around cache.set
cachingOnSet == enableCaching

\* the write is awaited, so its rejection is thrown inside the try block
cacheSetAwaited_Await == TRUE

\* lines 166, 173: this.cache?.set(...) is called without await; the promise
\* it returns is dropped
cacheSetAwaited == FALSE

\* the call is still in flight when the code after it runs
completed_StillInFlight(n) == n

\* line 135: `await create(body)`; the code after it runs when the call has
\* completed
completed(n) == n - 1

\* the decision of an attempt takes effect: the "response received" log of
\* lines 137-145, cache.set, the error log of lines 178-190, then the return,
\* throw or recursive call
Settle(outcome) ==
  /\ logged' = [level0 |-> logged.level0 + (IF outcome.caught THEN 1 ELSE 0),
                level1 |-> logged.level1 + (IF outcome.received THEN 1 ELSE 0)]
  /\ inFlight' = completed(inFlight)
  /\ IF outcome.writes
     THEN /\ store' = IF outcome.setOk
                      THEN CacheSet(cacheOptions(optionsInitial), outcome.value)
                      ELSE store
          /\ cacheSets' = cacheSets + 1
          /\ lastSet' = [key |-> cacheOptions(optionsInitial),
                         value |-> outcome.value]
          /\ setFailed' = (setFailed \/ ~outcome.setOk)
     ELSE UNCHANGED <<store, cacheSets, lastSet, setFailed>>
  /\ CASE outcome.then.do = "return" ->
            /\ result' = Returned(outcome.then.value)
            /\ pc' = "done"
            /\ UNCHANGED retries
       [] outcome.then.do = "throw" ->
            /\ result' = Thrown(outcome.then.error)
            /\ pc' = "done"
            /\ UNCHANGED retries
       [] OTHER ->
            /\ retries' = nextRetries(retries)
            /\ pc' = "invoke"
            /\ UNCHANGED result

\* lines 135-176 (and the catch block when the try body throws): the
\* transport resolved with a response; setOk tells whether the cache write
\* this attempt makes, if any, succeeds
CreateResolve(response, setOk) ==
  /\ pc = "create"
  /\ kinds' = kinds \cup {AttemptKind(response)}
  /\ lastKind' = AttemptKind(response)
  /\ failures' =
       failures + (IF AttemptKind(response) \in {"raw", "valid"} THEN 0 ELSE 1)
  /\ LET first == tryBody(response)
         writes == first.then.do = "return" /\ cachingOnSet /\ cacheSupplied
         thrown == writes /\ ~setOk /\ cacheSetAwaited
     IN /\ setOk \/ writes
        /\ Settle([caught |-> first.caught \/ thrown,
                   then |-> IF thrown THEN catchBlock(CacheError)
                            ELSE first.then,
                   received |-> TRUE,
                   writes |-> writes,
                   setOk |-> setOk,
                   value |-> first.then.value])
  /\ UNCHANGED <<config, history, optionsInitial, body, transportCalls,
                 getResults, getKey, cacheGets>>

\* lines 177-207: the transport rejected with an error
CreateReject(error) ==
  /\ pc = "create"
  /\ kinds' = kinds \cup {RejectKind(error)}
  /\ lastKind' = RejectKind(error)
  /\ failures' = failures + 1
  /\ Settle([caught |-> TRUE, then |-> catchBlock(error), received |-> FALSE,
             writes |-> FALSE, setOk |-> TRUE, value |-> Undefined])
  /\ UNCHANGED <<config, history, optionsInitial, body, transportCalls,
                 getResults, getKey, cacheGets>>

Next ==
  \/ \E request \in Requests \cup {optionsInitial}, n \in 0..MaxRetries :
       Call(request, n)
  \/ Enter
  \/ GetResolve
  \/ GetReject
  \/ \E response \in Responses, setOk \in BOOLEAN :
       CreateResolve(response, setOk)
  \/ \E error \in TransportErrors : CreateReject(error)

Spec == Init /\ [][Next]_vars

\* Every code segment that is ready runs, every cache.get settles and every
\* transport call settles: the event loop runs ready continuations, and the
\* collaborators are taken to complete every operation.
Settled ==
  \/ \E response \in Responses, setOk \in BOOLEAN :
       CreateResolve(response, setOk)
  \/ \E error \in TransportErrors : CreateReject(error)

FairSpec ==
  /\ Spec
  /\ WF_vars(Enter)
  /\ WF_vars(GetResolve \/ GetReject)
  /\ WF_vars(Settled)

\* ------------------------------------------- flattening of message content
\* The message formatting of lines 104-113 on its own: one invocation, with
\* caching disabled, of a request whose single message has any content of up
\* to MaxParts parts.
PartChoices == {TextPart("a"), TextPart("b"), TextPart(""), ImagePart}
FlattenContents ==
  {PartsContent(ps) : ps \in UNION {[1..n -> PartChoices] : n \in 0..MaxParts}}
  \cup {PlainContent("2+2?"), PlainContent("")}
FlattenRequests ==
  {Request(<<[role |-> role, content |-> c]>>, rm) :
     role \in {"user"}, c \in FlattenContents, rm \in {Undefined, AnswerModel}}

FlattenInit ==
  /\ enableCaching = FALSE
  /\ cacheSupplied = FALSE
  /\ store = {}
  /\ optionsInitial \in FlattenRequests
  /\ original = optionsInitial.messages
  /\ retries = 0
  /\ pc = "invoke"
  /\ result = NoResult
  /\ body = <<>>
  /\ logged = [level0 |-> 0, level1 |-> 0]
  /\ calls = 1
  /\ budget = 0
  /\ transportCalls = 0
  /\ kinds = {}
  /\ lastKind = "none"
  /\ failures = 0
  /\ getResults = {}
  /\ getKey = NoKey
  /\ cacheSets = 0
  /\ lastSet = NoSet
  /\ cacheGets = 0
  /\ setFailed = FALSE
  /\ inFlight = 0

FlattenNext == Enter

FlattenSpec == FlattenInit /\ [][FlattenNext]_vars

\* ================================================================ claims
HasResponseModel == optionsInitial.response_model # Undefined

\* the message list a structured request should put on the wire: one
\* injected instruction, then the caller's messages
ExpectedMessages ==
  formattedMessages(
    <<Instruction(optionsInitial.response_model.schema)>> \o original)

\* C1: on every attempt of a top-level call that carries a response model,
\* the messages handed to the transport are exactly one injected JSON-format
\* system instruction followed by the caller's original messages.
C1_OriginalRequestPreserved ==
  (pc = "create" /\ HasResponseModel) => body = ExpectedMessages

\* C2: a structured request whose every response parses but fails validation
\* (no cache lookup returned a value) makes exactly budget + 1 transport
\* calls, one per unit of budget, never returns a value, and ends with the
\* "Invalid response schema" error.
C2_RetryBound ==
  (HasResponseModel /\ kinds = {"invalid"} /\ getResults \subseteq {"absent"})
    => /\ result.tag # "returned"
       /\ pc \in {"invoke", "get"} => transportCalls + retries = budget
       /\ pc = "create" => transportCalls + retries = budget + 1
       /\ pc = "done" => /\ transportCalls = budget + 1
                         /\ result = Thrown(InvalidSchemaError)

C2_Witness ==
  /\ pc = "done"
  /\ HasResponseModel
  /\ kinds = {"invalid"}
  /\ getResults \subseteq {"absent"}
  /\ budget = 2
  /\ transportCalls = 3

\* C3: an attempt whose transport call fails with status 402 is the last
\* one: the call is over at once with the InsufficientBalance error, whatever
\* budget remains, and a 402 on the first attempt means one transport call.
C3_NoRetryOnPayment ==
  "payment" \in kinds
    => /\ pc = "done"
       /\ result = Thrown(InsufficientBalanceError)
       /\ lastKind = "payment"
       /\ kinds = {"payment"} => transportCalls = 1

C3_Witness ==
  /\ "payment" \in kinds
  /\ retries > 0
  /\ transportCalls = 1
  /\ result = Thrown(InsufficientBalanceError)

C5_CacheHitIdempotence ==
  [][(pc = "get" /\ pc' # "get" /\ result'.tag # "thrown"
        /\ cachedResponse(optionsInitial) # Undefined)
       => /\ pc' = "done"
          /\ result' = Returned(cachedResponse(optionsInitial))
          /\ transportCalls' = transportCalls
          /\ store' = store
          /\ cacheSets' = cacheSets
          /\ logged'.level0 = logged.level0]_vars

\* C6: the key passed to cache.set is the key derived from the request the
\* caller supplied, which is also the key that was passed to cache.get.
C6_SetUnderDerivedKey ==
  cacheSets > 0
    => /\ lastSet.key =
            cacheOptions([optionsInitial EXCEPT !.messages = original])
       /\ lastSet.key = getKey

\* C7: for a structured request, cache.set is called only by an attempt whose
\* content was parsed and passed validation, with the parsed value (not the
\* transport's response), and that attempt returns the value; attempts that
\* end in empty content, malformed JSON, a validation failure or a transport
\* error write nothing.
C7_SetOnlyAfterValidation ==
  HasResponseModel
    => /\ cacheSets > 0
            => /\ lastKind = "valid"
               /\ pc = "done"
               /\ result = Returned(lastSet.value)
               /\ lastSet.value \notin Responses
               /\ \E c \in Contents :
                    /\ Truthy(c)
                    /\ JSONParse(c.v).ok
                    /\ JSONParse(c.v).value = lastSet.value
               /\ validateZodSchema(optionsInitial.response_model.schema,
                                    lastSet.value)
       /\ cacheSets <= 1
       /\ lastKind \in {"empty", "malformed", "invalid", "transport", "payment"}
            => cacheSets = 0
       /\ \A e \in store :
            e.key.response_model # Undefined
              => validateZodSchema(e.key.response_model.schema, e.value)

C7_Witness ==
  /\ HasResponseModel
  /\ cacheSets = 1
  /\ "invalid" \in kinds
  /\ lastSet.value = AnswerObj(Num(4))

\* C8: when every transport call fails with a status other than 402, a call
\* with retries = n makes exactly n + 1 transport calls and then fails with
\* the transport's own error object.  (Stated for the calls in which the
\* cache itself never failed, so that a violation is the adapter's doing.)
C8_TransportErrorRetry ==
  (pc = "done" /\ kinds = {"transport"} /\ "error" \notin getResults)
    => /\ transportCalls = budget + 1
       /\ result.tag = "thrown"
       /\ result.error \in TransportErrors

\* C9: every failed attempt is logged at level 0 before the next invocation
\* starts or the error reaches the caller.
C9_FailuresLogged ==
  pc \in {"invoke", "get", "create", "done"} => logged.level0 >= failures

\* C10: a value returned for a request that carries a response model
\* satisfies that request's schema, whether it came from the transport or
\* from the cache.
C10_StructuredOutput ==
  (pc = "done" /\ result.tag = "returned" /\ HasResponseModel)
    => validateZodSchema(optionsInitial.response_model.schema, result.value)

C10_Witness ==
  /\ pc = "done"
  /\ HasResponseModel
  /\ result = Returned(AnswerObj(Num(4)))
  /\ transportCalls = 0
  /\ "value" \in getResults

\* C11: when cache.set fails after a successful transport call (and, for a
\* structured request, after validation), the call still returns the value it
\* obtained: no error reaches the caller, nothing is logged as an error for
\* it and no further invocation or transport call follows.
C11_SetFailureKeepsResult ==
  setFailed
    => /\ pc = "done"
       /\ result = Returned(lastSet.value)
       /\ lastKind \in {"valid", "raw"}
       /\ inFlight = 0
       /\ logged.level0 <= failures
       /\ HasResponseModel
            => validateZodSchema(optionsInitial.response_model.schema,
                                 result.value)

C11_Witness ==
  /\ setFailed
  /\ HasResponseModel
  /\ retries > 0
  /\ result = Returned(AnswerObj(Num(4)))
  /\ store = {}

\* C13: when cache.get fails, the call fails with the cache's error at once:
\* the error is neither logged and retried nor swallowed, and the invocation
\* whose lookup failed makes no transport call and no cache write.
C13_GetFailurePropagates ==
  "error" \in getResults
    => /\ pc = "done"
       /\ result = Thrown(CacheError)
       /\ transportCalls = cacheGets - 1
       /\ inFlight = 0
       /\ cacheSets = 0
       /\ logged.level0 <= failures

C13_Witness ==
  /\ "error" \in getResults
  /\ retries > 0
  /\ transportCalls = 0
  /\ result = Thrown(CacheError)

\* C14: within one top-level call the cache is looked up once, before the
\* first transport call, and a retry goes straight to the transport: no
\* lookup is pending after a transport call was made, and a call that had a
\* failed attempt returns only what its last transport call produced.
C14_SingleLookup ==
  /\ cacheGets <= 1
  /\ pc = "get" => transportCalls = 0
  /\ (pc = "done" /\ failures > 0 /\ result.tag = "returned")
       => lastKind \in {"valid", "raw"}

\* C15: whatever the outcomes of the attempts, a call with retries = n makes
\* at most n + 1 transport calls, every retry runs with the budget of the
\* attempt before it minus one, and the budget never goes below 0.
C15_BudgetPerAttempt ==
  /\ transportCalls <= budget + 1
  /\ retries \in 0..budget
  /\ pc \in {"invoke", "get"} => transportCalls = budget - retries
  /\ pc = "create" => transportCalls = budget - retries + 1
  /\ pc = "done" => transportCalls <= budget - retries + 1

C15_Witness ==
  /\ pc = "done"
  /\ {"invalid", "malformed", "transport"} \subseteq kinds
  /\ transportCalls = 3
  /\ retries = 0

\* C16: a structured request whose every attempt gets a response without
\* content makes exactly n + 1 transport calls and then fails with the
\* "No content in response" error, without a cache write.  (Stated for the
\* calls in which the cache itself never failed.)
C16_EmptyRetried ==
  (pc = "done" /\ HasResponseModel /\ kinds = {"empty"}
     /\ "error" \notin getResults)
    => /\ transportCalls = budget + 1
       /\ result = Thrown(NoContentError)
       /\ cacheSets = 0

\* C18: at most one transport call is in flight: a retry issues its call
\* only after the call of the attempt before it has completed, every
\* transport call follows the cache lookup of its own invocation, and the
\* cache is written only when no call is in flight.
C18_OneInFlight ==
  /\ inFlight \in {0, 1}
  /\ inFlight = 1 <=> pc = "create"
  /\ (enableCaching /\ pc = "create") => cacheGets = transportCalls
  /\ cacheSets > 0 => (inFlight = 0 /\ transportCalls >= 1 /\ pc = "done")

C18_Witness ==
  /\ pc = "create"
  /\ enableCaching
  /\ transportCalls = 2
  /\ inFlight = 1

\* C19: when a call has returned or failed, the caller's message list is
\* what it was when the call began.
C19_RequestUnchanged ==
  pc = "done" => optionsInitial.messages = original

\* C20: with caching disabled no cache.get and no cache.set is ever made,
\* even when a cache was supplied, and every value returned comes from a
\* transport call of that call.
C20_NoCacheTraffic ==
  ~enableCaching
    => /\ cacheGets = 0
       /\ cacheSets = 0
       /\ getResults = {}
       /\ store = {}
       /\ ~setFailed
       /\ (pc = "done" /\ result.tag = "returned")
            => (transportCalls >= 1 /\ lastKind \in {"valid", "raw"})

C20_Witness ==
  /\ ~enableCaching
  /\ cacheSupplied
  /\ pc = "done"
  /\ result.tag = "returned"
  /\ calls = 2

\* the text of a part that has one
IsTextPart(c) == "text" \in DOMAIN c
IsNonEmptyTextPart(c) == IsTextPart(c) /\ c.text # ""

\* the texts of a list of text parts, each followed by a newline except the
\* last
RECURSIVE TextsJoined(_, _)
TextsJoined(parts, n) ==
  IF n = 0 THEN ""
  ELSE IF n = 1 THEN parts[1].text
  ELSE TextsJoined(parts, n - 1) \o "\n" \o parts[n].text

\* what the claim says a message's content is transmitted as
TextPartsJoined(content) ==
  IF content.isArray
  THEN LET kept == SelectSeq(content.parts, IsTextPart)
       IN TextsJoined(kept, Len(kept))
  ELSE content.text

\* the same, with the text parts whose text is empty left out
NonEmptyTextPartsJoined(content) ==
  IF content.isArray
  THEN LET kept == SelectSeq(content.parts, IsNonEmptyTextPart)
       IN TextsJoined(kept, Len(kept))
  ELSE content.text

\* C12: every message is transmitted with its role, and with its content
\* flattened to the texts of its text parts, in order, joined by a newline,
\* the other parts dropped; plain text is transmitted unchanged.
C12_Flattening ==
  pc = "create"
    => /\ Len(body) = Len(optionsInitial.messages)
       /\ \A i \in 1..Len(body) :
            /\ body[i].role = optionsInitial.messages[i].role
            /\ body[i].content =
                 TextPartsJoined(optionsInitial.messages[i].content)

\* C12 (amended): as C12, except that a text part whose text is empty is
\* dropped like a non-text part, so it adds no newline.
C12_FlatteningNonEmpty ==
  pc = "create"
    => /\ Len(body) = Len(optionsInitial.messages)
       /\ \A i \in 1..Len(body) :
            /\ body[i].role = optionsInitial.messages[i].role
            /\ body[i].content =
                 NonEmptyTextPartsJoined(optionsInitial.messages[i].content)

C12_Witness ==
  /\ pc = "create"
  /\ original = <<Mixed>>
  /\ body = <<[role |-> "user", content |-> "a\nb"]>>

\* a top-level call is over
Terminal == pc = "done"
\* No top-level call is pending: none was made yet, or the last one is over.
AtRest == pc \in {"idle", "done"}

\* C17: every top-level call ends, in exactly one of two ways: a value is
\* returned or an error is thrown; a returned value is never a stand-in for
\* a failure (undefined or null), and once the call is over nothing more
\* happens until the caller makes its next call. "Every call ends" is stated
\* as: the adapter is again and again at rest, so no call stays pending.
C17_Termination ==
  /\ []<>AtRest
  /\ [](Terminal <=> result.tag \in {"returned", "thrown"})
  /\ []((Terminal /\ result.tag = "returned")
          => /\ result.value.t \notin {"undefined", "null"}
             /\ lastKind \in {"valid", "raw"} \/ "value" \in getResults)
  /\ [][Terminal => (Terminal' \/ calls' = calls + 1)]_vars

C17_Witness ==
  /\ Terminal
  /\ result.tag = "thrown"
  /\ transportCalls = 3
  /\ calls = 2

====
